---- MODULE Spec2Model ----
(***************************************************************************)
(* Model of tinygrad/runtime/ops_disk.py: one DiskDevice (the backing      *)
(* region: size, count, shm / fd / mem attributes), the DiskBuffer slices  *)
(* handed out over it, and the DiskAllocator operations _alloc, _free,     *)
(* as_buffer, copyin, copyout and offset.                                  *)
(*                                                                         *)
(* The operating system is part of the environment: the bytes of the       *)
(* backing file or shared-memory segment are the variable store, and the   *)
(* outcome of each system call made while opening is drawn from Envs.      *)
(* A mapping of a file is shared, so reads and writes through the mapping  *)
(* and reads through the file descriptor see the same bytes.               *)
(* Views returned by as_buffer are observed at once and not retained.      *)
(***************************************************************************)
EXTENDS Integers, Sequences, FiniteSets

\* ---------------------------------------------------------------- bounds

MaxSize == 2      \* allocation sizes are 1..MaxSize, offsets 0..MaxSize - 1
MaxCalls == 5     \* number of allocator calls in a run

None == -1        \* Optional[int] None of DiskDevice.size

Byte == {0, 1}
Blank == Cardinality(Byte)   \* content of a destination buffer before copyout
Sizes == 1..MaxSize            \* sizes passed to _alloc and offset (never 0)
Offsets == 0..(MaxSize - 1)
Lens == 1..MaxSize

Min(a, b) == IF a < b THEN a ELSE b
Max(a, b) == IF a > b THEN a ELSE b

Fill(n, v) == [i \in 1..n |-> v]

\* The byte strings a caller copies in: of every length, the two whose
\* neighbouring bytes differ.
Datas == UNION {{[i \in 1..n |-> i % 2], [i \in 1..n |-> (i + 1) % 2]} :
                n \in Lens}

\* Outcome of the system calls of one open: all succeed, or the named one fails.
\*   direct : the first os.open fails, the retry succeeds
\*   open   : both os.open calls fail
\*   create : SharedMemory(create=True) fails
\*   mmap   : mmap.mmap fails
\*   hint   : madvise(MADV_HUGEPAGE) fails
Envs == {"ok", "direct", "open", "create", "mmap", "hint"}

VARIABLES
  kind,     \* "file" or "shm": dname is disk:<path> or disk:shm:<name>
  OSX,      \* tinygrad.helpers.OSX
  HP,       \* mmap has the attribute MADV_HUGEPAGE
  size,     \* DiskDevice.size (None or the pinned capacity)
  count,    \* DiskDevice.count
  shm,      \* attribute self.shm: "absent", "open", "unlinked"
  fd,       \* attribute self.fd: "absent", "open", "closed"
  mem,      \* attribute self.mem: "absent", "mapped", "released"
  memLen,   \* length of the buffer self.mem refers to
  store,    \* bytes of the backing file / shared-memory segment
  bufs,     \* the DiskBuffer objects returned by _alloc so far
  derived,  \* the DiskBuffer returned by the latest offset call (NoBuf: none)
  sess,     \* number of closed-to-open transitions so far
  calls,    \* number of allocator calls made
  owed,     \* number of _alloc calls minus number of _free calls so far
  dipped,   \* at some point more _free than _alloc calls had been made
  faulted,  \* some system call of an open has failed in this run
  wrote,    \* the last copyin that completed
  last      \* the last call: its arguments, pre-state and result

vars == <<kind, OSX, HP, size, count, shm, fd, mem, memLen, store, bufs,
          derived, sess, calls, owed, dipped, faulted, wrote, last>>

hist == <<owed, dipped>>

dev == <<size, count, shm, fd, mem, memLen>>
plat == <<kind, OSX, HP>>

\* ------------------------------------------------------------ DiskBuffer

\* DiskBuffer.__init__. The field alloc is bookkeeping, not a field of the
\* code: the buffer was returned by _alloc in the open session that still lasts.
DiskBuffer(sz, off, viaAlloc) ==
  [size |-> sz, offset |-> off, alloc |-> viaAlloc]

NoBuf == [size |-> 0, offset |-> 0, alloc |-> FALSE]

\* The index range of memoryview(mem)[offset:offset+size]: Python clamps a
\* slice to the length of the buffer.
ViewLo(b) == Min(b.offset, memLen)
ViewHi(b) == Min(b.offset + b.size, memLen)
ViewLen(b) == Max(0, ViewHi(b) - ViewLo(b))

\* DiskBuffer._buf: the error it raises, or "none".
BufErr(b) ==
  CASE mem = "absent" -> "AttributeError"
    [] mem = "none" -> "NotOpen"
    [] mem = "released" -> "ValueError"
    [] OTHER -> "none"

BufBytes(b) == SubSeq(store, ViewLo(b) + 1, ViewHi(b))

Call(op, b, n, off, err, out, tries) ==
  [op |-> op, buf |-> b, n |-> n, off |-> off, err |-> err, out |-> out,
   tries |-> tries, env |-> "ok", size0 |-> size, count0 |-> count]

NoWrite == [buf |-> NoBuf, data |-> <<>>, sess |-> 0, live |-> FALSE]

Init ==
  /\ kind \in {"file", "shm"}
  /\ OSX \in BOOLEAN
  /\ HP \in BOOLEAN
  /\ ~(OSX /\ HP)
  /\ size = None
  /\ count = 0
  /\ shm = "absent"
  /\ fd = "absent"
  /\ mem = "absent"
  /\ memLen = 0
  /\ store = <<>>
  /\ bufs = {}
  /\ derived = NoBuf
  /\ sess = 0
  /\ calls = 0
  /\ owed = 0
  /\ dipped = FALSE
  /\ faulted = FALSE
  /\ wrote = NoWrite
  /\ last = Call("init", NoBuf, 0, 0, "none", <<>>, 0)

\* ---------------------------------------------------- DiskDevice._might_open

\* Mutants of the assertion: a strict comparison, and no check at all.
ReopenStrict(sz) == size = None \/ sz < size
ReopenAlways(sz) == TRUE

\* The assertion of _might_open: a region that is open cannot grow.
ReopenAllowed(sz) == size = None \/ sz <= size

\* Mutant: the OSError of the first os.open raised without a second call.
OpenNotRetried(env) == env \in {"direct", "open"}

\* os.open with O_DIRECT where the platform has it, retried once without.
OpenTries(env) == IF env \in {"direct", "open"} THEN 2 ELSE 1
OpenFails(env) == env = "open"

\* Mutant: the content of the file discarded when it is opened.
GrownZeroed(f, sz) == Fill(Max(Len(f), sz), 0)

\* Mutant: ftruncate applied whatever the length, cutting a longer file.
GrownExact(f, sz) == [i \in 1..sz |-> IF i <= Len(f) THEN f[i] ELSE 0]

\* os.fstat / os.ftruncate: the file is extended when shorter than the size.
Grown(f, sz) == IF Len(f) < sz THEN f \o Fill(sz - Len(f), 0) ELSE f

\* mem.madvise(MADV_HUGEPAGE) where mmap has the attribute: self.mem is an
\* mmap for a file and the memoryview shm.buf, which has no madvise, for
\* shared memory.
HintErr(env) ==
  CASE ~HP -> "none"
    [] HP /\ kind = "shm" -> "AttributeError"
    [] HP /\ kind # "shm" /\ env = "hint" -> "OSError"
    [] OTHER -> "none"

Dev(s, f, m, ml, st, err, tries) ==
  [shm |-> s, fd |-> f, mem |-> m, memLen |-> ml, store |-> st, err |-> err,
   tries |-> tries]

\* The closed-to-open transition: the attributes after it and the error raised.
Acquire(sz, env) ==
  IF kind = "shm"
  THEN IF env = "create"
       THEN Dev(shm, fd, mem, memLen, store, "OSError", 0)
       ELSE Dev("open", fd, "mapped", sz, Fill(sz, 0), HintErr(env), 0)
  ELSE IF OpenFails(env)
       THEN Dev(shm, fd, mem, memLen, store, "OSError", OpenTries(env))
       ELSE IF env = "mmap"
            THEN Dev(shm, "open", mem, memLen, Grown(store, sz), "OSError",
                     OpenTries(env))
            ELSE Dev(shm, "open", "mapped", sz, Grown(store, sz), HintErr(env),
                     OpenTries(env))

\* The outcomes that differ for the open about to be made (none when the
\* region is open: no system call is made).
EnvsNow ==
  IF size # None THEN {"ok"}
  ELSE IF kind = "shm" THEN {"ok", "create"}
  ELSE {"ok", "direct", "open", "mmap"} \cup (IF HP THEN {"hint"} ELSE {})

\* Mutant: the count raised only once the assertion has passed.
CountAfterCheck(sz) == IF ReopenAllowed(sz) THEN count + 1 ELSE count

\* self.count += 1, the first statement of _might_open.
CountAfterOpen(sz) == count + 1

\* DiskAllocator._alloc: _might_open(size), then DiskBuffer(device, size).
Alloc(sz, env) ==
  /\ calls < MaxCalls
  /\ calls' = calls + 1
  /\ count' = CountAfterOpen(sz)
  /\ owed' = owed + 1
  /\ UNCHANGED <<plat, derived, dipped, wrote>>
  /\ IF ~ReopenAllowed(sz)
     THEN /\ last' = Call("alloc", NoBuf, sz, 0, "CapacityExceeded", <<>>, 0)
          /\ UNCHANGED <<size, shm, fd, mem, memLen, store, bufs, sess, faulted>>
     ELSE IF size # None
     THEN /\ bufs' = bufs \cup {DiskBuffer(sz, 0, TRUE)}
          /\ last' = Call("alloc", DiskBuffer(sz, 0, TRUE), sz, 0, "none", <<>>, 0)
          /\ UNCHANGED <<size, shm, fd, mem, memLen, store, sess, faulted>>
     ELSE LET a == Acquire(sz, env)
              b == DiskBuffer(sz, 0, TRUE)
          IN /\ size' = sz
             /\ sess' = sess + 1
             /\ shm' = a.shm
             /\ fd' = a.fd
             /\ mem' = a.mem
             /\ memLen' = a.memLen
             /\ store' = a.store
             /\ faulted' = (faulted \/ a.err = "OSError")
             /\ bufs' = IF a.err = "none" THEN bufs \cup {b} ELSE bufs
             /\ last' = [Call("alloc", IF a.err = "none" THEN b ELSE NoBuf, sz,
                              0, a.err, <<>>, a.tries) EXCEPT !.env = env]

\* --------------------------------------------------- DiskDevice._might_close

\* The branch taken when the count reaches 0: the attributes after it and the
\* error raised (shm.unlink of a segment already unlinked, os.close of a
\* descriptor already closed). size is reset only when nothing was raised.
Release ==
  CASE shm = "open" -> Dev("unlinked", fd, "released", memLen, <<>>, "none", 0)
    [] shm = "unlinked" -> Dev(shm, fd, mem, memLen, store, "FileNotFoundError", 0)
    [] shm = "absent" /\ fd = "open" ->
         Dev(shm, "closed", mem, memLen, store, "none", 0)
    [] shm = "absent" /\ fd = "closed" ->
         Dev(shm, fd, mem, memLen, store, "OSError", 0)
    [] OTHER -> Dev(shm, fd, mem, memLen, store, "none", 0)

\* What the branch can do: os.close of a descriptor number this device has
\* closed already raises EBADF, or closes whatever descriptor the process
\* has opened under that number since and returns normally.
Releases ==
  {Release} \cup
    (IF shm = "absent" /\ fd = "closed"
     THEN {Dev(shm, fd, mem, memLen, store, "none", 0)}
     ELSE {})

\* Mutant: the count left as it is.
NotDecremented(c) == c

Decremented(c) == c - 1

\* Mutant: the region closed while one reference is left.
LastRefEarly(c) == c <= 1

\* if self.count == 0
LastRef(c) == c = 0

\* The buffers once the open session has ended (bookkeeping only).
Ended(bs) == {[b EXCEPT !.alloc = FALSE] : b \in bs}

\* DiskAllocator._free: _might_close(); the buffer is not looked at.
Free(b) ==
  /\ calls < MaxCalls
  /\ calls' = calls + 1
  /\ count' = Decremented(count)
  /\ owed' = owed - 1
  /\ dipped' = (dipped \/ owed' < 0)
  /\ UNCHANGED <<plat, derived, sess, faulted>>
  /\ IF LastRef(count')
     THEN \E r \in Releases :
            /\ shm' = r.shm
            /\ fd' = r.fd
            /\ mem' = r.mem
            /\ memLen' = r.memLen
            /\ store' = r.store
            /\ size' = IF r.err = "none" THEN None ELSE size
            /\ bufs' = IF r.err = "none" THEN Ended(bufs) ELSE bufs
            /\ wrote' = [wrote EXCEPT !.live = FALSE]
            /\ last' = Call("free", b, 0, 0, r.err, <<>>, 0)
     ELSE /\ last' = Call("free", b, 0, 0, "none", <<>>, 0)
          /\ UNCHANGED <<size, shm, fd, mem, memLen, store, bufs, wrote>>

\* -------------------------------------------------------- DiskAllocator

\* Mutant: the offset taken relative to the base buffer.
OffsetRelative(b, sz, off) == DiskBuffer(sz, b.offset + off, FALSE)

\* DiskAllocator.offset: size and offset are taken as given.
OffsetBuf(b, sz, off) == DiskBuffer(sz, off, FALSE)

Derive(b, sz, off) ==
  /\ calls < MaxCalls
  /\ calls' = calls + 1
  /\ derived' = OffsetBuf(b, sz, off)
  /\ last' = Call("offset", OffsetBuf(b, sz, off), sz, off, "none", <<>>, 0)
  /\ UNCHANGED <<plat, dev, store, bufs, sess, hist, faulted, wrote>>

\* DiskAllocator.as_buffer
AsBuffer(b) ==
  /\ calls < MaxCalls
  /\ calls' = calls + 1
  /\ last' = Call("as_buffer", b, 0, 0, BufErr(b),
                  IF BufErr(b) = "none" THEN BufBytes(b) ELSE <<>>, 0)
  /\ UNCHANGED <<plat, dev, store, bufs, derived, sess, hist, faulted, wrote>>

\* dest[:] = src for memoryviews: the lengths must agree.
AssignErr(destLen, srcLen) ==
  IF destLen # srcLen THEN "LengthMismatch" ELSE "none"

\* store with the bytes of b's view replaced by data.
Patched(st, b, data) ==
  [i \in 1..Len(st) |->
     IF ViewLo(b) < i /\ i <= ViewHi(b) THEN data[i - ViewLo(b)] ELSE st[i]]

CopyInErr(b, data) ==
  IF BufErr(b) # "none" THEN BufErr(b) ELSE AssignErr(ViewLen(b), Len(data))

\* DiskAllocator.copyin: dest._buf()[:] = src
CopyIn(b, data) ==
  /\ calls < MaxCalls
  /\ calls' = calls + 1
  /\ last' = Call("copyin", b, Len(data), 0, CopyInErr(b, data), <<>>, 0)
  /\ IF CopyInErr(b, data) = "none"
     THEN /\ store' = Patched(store, b, data)
          /\ wrote' = [buf |-> b, data |-> data, sess |-> sess, live |-> TRUE]
     ELSE UNCHANGED <<store, wrote>>
  /\ UNCHANGED <<plat, dev, bufs, derived, sess, hist, faulted>>

\* copyout reads through the file descriptor on OSX when the device has one.
UsesFd == OSX /\ fd # "absent"

\* Mutant: the read made without the seek, from the start of the file.
FdReadNoSeek(b, n) ==
  LET got == SubSeq(store, 1, Min(n, Len(store)))
  IN got \o Fill(n - Len(got), Blank)

\* fo.seek(src.offset); fo.readinto(dest): up to len(dest) bytes of the file
\* from the offset on; the rest of dest keeps its content.
FdRead(b, n) ==
  LET got == SubSeq(store, Min(b.offset, Len(store)) + 1,
                    Min(b.offset + n, Len(store)))
  IN got \o Fill(n - Len(got), Blank)

CopyOutErr(b, n) ==
  IF UsesFd
  THEN IF fd = "closed" THEN "OSError" ELSE "none"
  ELSE IF BufErr(b) # "none" THEN BufErr(b) ELSE AssignErr(n, ViewLen(b))

\* Mutant: the FileIO opened with closefd=True closes the descriptor on exit.
FdClosedAfterRead(f) == "closed"

\* io.FileIO(fd, "a+b", closefd=False): the descriptor outlives the with block.
FdAfterRead(f) == f

CopyOutData(b, n) ==
  IF CopyOutErr(b, n) # "none" THEN Fill(n, Blank)
  ELSE IF UsesFd THEN FdRead(b, n) ELSE BufBytes(b)

\* DiskAllocator.copyout into a destination of n bytes.
CopyOut(b, n) ==
  /\ calls < MaxCalls
  /\ calls' = calls + 1
  /\ last' = Call("copyout", b, n, 0, CopyOutErr(b, n), CopyOutData(b, n), 0)
  /\ fd' = IF UsesFd /\ CopyOutErr(b, n) = "none" THEN FdAfterRead(fd) ELSE fd
  /\ UNCHANGED <<plat, size, count, shm, mem, memLen, store, bufs, derived,
                 sess, hist, faulted, wrote>>

\* The buffers a caller holds.
Held == bufs \cup ({derived} \ {NoBuf})

Next ==
  \/ \E sz \in Sizes, env \in EnvsNow : Alloc(sz, env)
  \/ \E b \in Held : Free(b)
  \/ \E b \in Held, sz \in Sizes, off \in Offsets : Derive(b, sz, off)
  \/ \E b \in Held : AsBuffer(b)
  \/ \E b \in Held, data \in Datas : CopyIn(b, data)
  \/ \E b \in Held, n \in Lens : CopyOut(b, n)

Spec == Init /\ [][Next]_vars

\* ---------------------------------------------------------------- claims

IoOps == {"as_buffer", "copyin", "copyout"}

\* C1 (as stated): after a balanced sequence of allocate and free calls (equal
\* counts, never more frees than allocates, no system call failing) the
\* region is closed: size is None and no mapping is held.
C1_BalancedEndsClosed ==
  (owed = 0 /\ ~dipped /\ ~faulted) => (size = None /\ mem # "mapped")

\* C2: while the region is open with capacity S1, an allocate of a size above
\* S1 fails with CapacityExceeded, and one of a size up to S1 succeeds; either
\* way the capacity stays S1.
C2_ReopenWithinCapacity ==
  (last.op = "alloc" /\ last.size0 # None) =>
    /\ size = last.size0
    /\ last.n > last.size0 => last.err = "CapacityExceeded" /\ last.buf = NoBuf
    /\ last.n <= last.size0 =>
         last.err = "none" /\ last.buf = DiskBuffer(last.n, 0, TRUE)

C2_Witness ==
  /\ last.op = "alloc"
  /\ last.size0 # None
  /\ last.n > last.size0
  /\ last.err = "CapacityExceeded"
  /\ count = 2

\* C3 (as stated): a free made when the count is already 0 fails (with
\* InvalidState, or with any error at all) and leaves the count at 0.
C3_FreeAtZeroFails ==
  (last.op = "free" /\ last.count0 = 0) => (last.err # "none" /\ count = 0)

\* C4 (as stated): once the free that brings the count back to 0 has closed
\* the region, as_buffer, copyin and copyout on a buffer issued before fail
\* (with NotOpen, or with any error at all).
C4_UseAfterCloseFails ==
  (last.op \in IoOps /\ sess >= 1 /\ size = None /\ count = 0 /\ ~faulted) =>
    last.err # "none"

\* C5 (as stated): the count is never negative, and a mapping is held exactly
\* when the count is positive (no system call failing).
C5_MappingIffCounted ==
  ~faulted => (count >= 0 /\ (mem = "mapped" <=> count > 0))

SameSlice(a, b) == a.size = b.size /\ a.offset = b.offset

\* Buffer a spans the bytes of buffer b.
Covers(a, b) == a.offset <= b.offset /\ b.offset + b.size <= a.offset + a.size

\* The last call read buffer last.buf in full without error.
ReadInFull ==
  /\ last.op \in {"copyout", "as_buffer"}
  /\ last.err = "none"
  /\ Len(last.out) = last.buf.size

\* The last completed copyin wrote a byte string of its buffer's size, in the
\* open session that still lasts.
WroteThisSession ==
  /\ wrote.sess >= 1
  /\ wrote.sess = sess
  /\ wrote.live
  /\ Len(wrote.data) = wrote.buf.size

\* C6: copyin of B into a buffer (len(B) the buffer's size) followed by
\* copyout of the same buffer into a destination of that length, with no
\* close in between, yields B, through the mapping and through the file
\* descriptor alike.
C6_RoundTrip ==
  (last.op = "copyout" /\ ReadInFull /\ WroteThisSession
     /\ SameSlice(last.buf, wrote.buf)) => last.out = wrote.data

C6_Witness ==
  /\ last.op = "copyout" /\ ReadInFull /\ WroteThisSession
  /\ SameSlice(last.buf, wrote.buf)
  /\ UsesFd
  /\ last.buf.offset > 0
  /\ last.out = wrote.data
  /\ \E i \in 1..Len(last.out) : last.out[i] = 1

\* C7: offset(base, size, offset) returns the buffer of exactly that size at
\* exactly that absolute offset, whatever the base; bytes written through a
\* buffer are read back through every buffer spanning them, at their
\* absolute position.
C7_DerivedAbsolute ==
  /\ last.op = "offset" =>
       (last.buf.size = last.n /\ last.buf.offset = last.off /\ derived = last.buf)
  /\ (ReadInFull /\ WroteThisSession /\ Covers(last.buf, wrote.buf)) =>
       SubSeq(last.out, wrote.buf.offset - last.buf.offset + 1,
              wrote.buf.offset - last.buf.offset + wrote.buf.size) = wrote.data

C7_Witness ==
  /\ ReadInFull /\ WroteThisSession /\ Covers(last.buf, wrote.buf)
  /\ wrote.buf = derived
  /\ derived.offset > 0
  /\ last.buf.alloc
  /\ last.buf.offset = 0
  /\ \E i \in 1..Len(wrote.data) : wrote.data[i] = 1

\* The last call read, in a later open session, the buffer of the last
\* completed copyin, the region having been closed after that copyin.
ReadAfterReopen ==
  /\ last.op = "copyout"
  /\ ReadInFull
  /\ wrote.sess >= 1
  /\ wrote.sess < sess
  /\ ~wrote.live
  /\ Len(wrote.data) = wrote.buf.size
  /\ SameSlice(last.buf, wrote.buf)

\* C8: bytes written to a file-backed region are read back unchanged after
\* the region was closed and opened again; a shared-memory region opened
\* again reads as zeros, the segment having been unlinked and created anew.
C8_Durability ==
  ReadAfterReopen =>
    /\ kind = "file" => last.out = wrote.data
    /\ kind = "shm" => last.out = Fill(last.n, 0)

C8_Witness ==
  /\ ReadAfterReopen
  /\ kind = "file"
  /\ mem = "mapped" /\ count = 1 /\ size = wrote.buf.size
  /\ last.out = wrote.data
  /\ \E i \in 1..Len(last.out) : last.out[i] = 1

C8_WitnessShm ==
  /\ ReadAfterReopen
  /\ kind = "shm"
  /\ \E i \in 1..Len(wrote.data) : wrote.data[i] = 1
  /\ last.out = Fill(last.n, 0)

\* C9 (as stated): while the region is open every buffer, returned by _alloc
\* or by offset, satisfies offset + size <= capacity.
C9_AllSlicesInBounds ==
  size # None => \A b \in Held : b.offset + b.size <= size

\* C9 (amended): while the region is open, every buffer returned by _alloc
\* in the open session that still lasts satisfies offset + size <= capacity.
C9_AllocatedInBounds ==
  size # None => \A b \in bufs : b.alloc => b.offset + b.size <= size

C9_Witness ==
  /\ size # None
  /\ \E b \in bufs : b.alloc
  /\ derived # NoBuf
  /\ derived.offset + derived.size > size

\* C10 (as stated): on an open region, a copy whose length differs from the
\* size of an in-bounds buffer fails with LengthMismatch and transfers
\* nothing, on either path of copyout.
C10_LengthMismatchFails ==
  (last.op \in {"copyin", "copyout"} /\ size # None /\ count > 0
     /\ mem = "mapped" /\ ~faulted
     /\ last.buf.offset + last.buf.size <= size
     /\ last.n # last.buf.size) =>
    (last.err = "LengthMismatch" /\ last.out = Fill(Len(last.out), Blank))

\* The last call was an _alloc that found the region closed (size unset).
Opening == last.op = "alloc" /\ last.size0 = None

\* C11 (as stated): where mmap.MADV_HUGEPAGE exists, an _alloc that opens
\* the region returns normally with a usable mapping whether or not the
\* hint can be applied, for a file and for shared memory.
C11_HintBestEffort ==
  (HP /\ Opening /\ last.env \in {"ok", "hint"}) =>
    (last.err = "none" /\ mem = "mapped" /\ memLen = size)

C13_ClosedThenAnySize ==
  ~faulted =>
    /\ (last.op = "free" /\ last.size0 # None) => (size = None <=> count = 0)
    /\ (Opening /\ sess >= 2 /\ last.env = "ok") =>
         (last.err = "none" /\ size = last.n /\ last.buf.size = last.n)

\* C14: opening a file, a failed first os.open is not raised: os.open is
\* called once more without O_DIRECT and the _alloc returns normally when
\* that call succeeds; when it fails too the OSError is raised after two
\* calls, and an os.open that succeeds at once is not repeated.
C14_DirectOpenFallsBack ==
  (kind = "file" /\ Opening) =>
    /\ last.env = "direct" =>
         (last.err = "none" /\ last.tries = 2 /\ fd = "open"
            /\ mem = "mapped" /\ last.buf.size = last.n)
    /\ last.env = "open" => (last.err = "OSError" /\ last.tries = 2)
    /\ last.env \notin {"direct", "open"} => last.tries = 1

C14_Witness ==
  /\ kind = "file"
  /\ Opening
  /\ last.env = "direct"
  /\ last.err = "none"
  /\ last.tries = 2
  /\ fd = "open"

\* C15: a copyout taking the descriptor path (OSX and a descriptor present)
\* leaves the descriptor, the mapping, the count, the capacity and the
\* stored bytes as they were, so the descriptor is still open after a
\* successful read and later copies find the region as before.
C15_FallbackReadKeepsFd ==
  [][(last'.op = "copyout" /\ calls' # calls /\ UsesFd) =>
       /\ UNCHANGED <<fd, shm, mem, memLen, count, size, store>>
       /\ last'.err = "none" => fd' = "open"]_vars

C15_Witness ==
  /\ last.op = "copyout"
  /\ UsesFd
  /\ last.err = "none"
  /\ fd = "open"
  /\ mem = "mapped"
  /\ calls >= 3
  /\ wrote.live
  /\ last.out = wrote.data

\* C16: every _alloc leaves the count one above what it found, on a closed
\* region, on an open one, and when the assertion on the size fails.
C16_AllocCountsOnce ==
  last.op = "alloc" => count = last.count0 + 1

C16_Witness ==
  /\ last.op = "alloc"
  /\ last.err = "CapacityExceeded"
  /\ last.size0 # None
  /\ last.n > size
  /\ count = last.count0 + 1
  /\ count >= 2

\* C17: offset, as_buffer, copyin and copyout leave the count, the capacity
\* and the open or closed state of the region (descriptor, shared-memory
\* handle, mapping) as they were; _free lowers the count by one, and what it
\* does to the region is the same whatever held buffer it is given.
C17_OnlyAllocFreeCount ==
  [][/\ (calls' # calls /\ last'.op \in {"offset", "as_buffer", "copyin",
                                         "copyout"}) =>
          UNCHANGED <<count, size, fd, shm, mem, memLen>>
     /\ (calls' # calls /\ last'.op = "free") =>
          /\ count' = count - 1
          /\ size' = IF count' = 0 /\ last'.err = "none" THEN None ELSE size
          /\ count' # 0 => UNCHANGED <<fd, shm, mem, memLen>>]_vars

C17_Witness ==
  /\ last.op = "free"
  /\ last.buf.offset > 0
  /\ ~last.buf.alloc
  /\ count = last.count0 - 1
  /\ count >= 1

\* C18: while no prefix of the calls has had more _free than _alloc and no
\* acquisition of the backing resource has failed, the capacity is unset
\* exactly when the count is 0, also after an _alloc that failed the
\* assertion on the size.
C18_UnsetIffZero ==
  (~dipped /\ ~faulted) => (size = None <=> count = 0)

C18_Witness ==
  /\ ~dipped
  /\ ~faulted
  /\ last.op = "alloc"
  /\ last.err = "CapacityExceeded"
  /\ owed = 2
  /\ count = 2
  /\ size # None

\* C19 (as stated): an _alloc on a closed region whose acquisition raises
\* (SharedMemory, both os.open calls, mmap or madvise) leaves the region
\* closed, with the count it found (0 after balanced calls) and the capacity
\* unset, so that a later _alloc acquires again.
C19_FailedOpenLeavesClosed ==
  (Opening /\ last.err \in {"OSError", "AttributeError"}) =>
    (size = None /\ count = last.count0)

\* C20 (as stated): the backing resource is acquired only by an _alloc that
\* finds the capacity unset, at that moment no descriptor or shared-memory
\* handle is held open, and os.close is never called on a descriptor that
\* has been closed already.
C20_OneHandleClosedOnce ==
  [][/\ (calls' # calls /\ (fd' # fd \/ shm' # shm) /\ last'.op # "free") =>
          (last'.op = "alloc" /\ size = None /\ fd # "open" /\ shm # "open")
     /\ (calls' # calls /\ last'.op = "free" /\ LastRef(count')) =>
          (shm = "absent" => fd # "closed")]_vars

====
